---- MODULE Spec2Model ----
(***************************************************************************)
(* Model of backend/app.py of resume-tailorer: the /tailor handler's       *)
(* measure-and-correct loop (tailor_resume), the renderer wrapper          *)
(* (compile_latex_to_pdf), the content extractor                           *)
(* (extract_latex_from_response) and the /upload handler that shares the   *)
(* global current_resume with it.                                          *)
(*                                                                         *)
(* Texts are sequences of tokens.  A token stands for one piece of text    *)
(* the code tests for:                                                     *)
(*   "dc"    \documentclass          "bd"  \begin{document}                *)
(*   "ed"    \end{document}          "fence" three backticks               *)
(*   "latex" / "tex"  the fence tag  "nl"  a newline (whitespace)          *)
(*   "x"     any other text                                                *)
(* Fill ratios are integers in thousandths (880 is 0.88).                  *)
(***************************************************************************)
EXTENDS Integers, Sequences, FiniteSets, TLC

\* ------------------------------------------------------------------ text

Contains(s, t) == \E i \in 1..Len(s) : s[i] = t

\* str.find for a token known to occur: the first index
Find(s, t) == CHOOSE i \in 1..Len(s) : s[i] = t /\ \A j \in 1..(i-1) : s[j] # t

IsSpace(t) == t = "nl"

\* str.strip(): drop leading and trailing whitespace
Strip(s) ==
  LET keep == {i \in 1..Len(s) : ~IsSpace(s[i])}
  IN  IF keep = {} THEN <<>>
      ELSE LET lo == CHOOSE i \in keep : \A j \in keep : i <= j
               hi == CHOOSE i \in keep : \A j \in keep : j <= i
           IN  SubSeq(s, lo, hi)

\* the two markers the extractor looks for
HasMarker(s) == Contains(s, "dc") \/ Contains(s, "bd")

\* The tokens a fence pattern requires between the opening fence and the
\* newline that ends the fence line; pattern 4 requires no newline.
\*   1: ```latex\s*\n(.*?)```   2: ```tex\s*\n(.*?)```
\*   3: ```\s*\n(.*?)```        4: ```(.*?)```
fence_patterns == 1..4

FenceTag(p) == IF p = 1 THEN <<"latex">> ELSE IF p = 2 THEN <<"tex">> ELSE <<>>

\* first index of the group when pattern p matches with its opening fence at i,
\* 0 when the pattern's head does not match at i
GroupStart(s, p, i) ==
  LET tag == FenceTag(p)
      h   == i + Len(tag)
  IN  IF ~(i <= Len(s) /\ s[i] = "fence") THEN 0
      ELSE IF ~(h <= Len(s) /\ SubSeq(s, i + 1, h) = tag) THEN 0
      ELSE IF p = 4 THEN h + 1
      ELSE IF h + 1 <= Len(s) /\ s[h + 1] = "nl" THEN h + 2
      ELSE 0

\* positions where pattern p matches: the head matches and a closing fence follows
MatchStarts(s, p) ==
  {i \in 1..Len(s) : GroupStart(s, p, i) # 0
                     /\ \E j \in GroupStart(s, p, i)..Len(s) : s[j] = "fence"}

\* re.search(pattern, text, re.DOTALL | re.IGNORECASE) then group(1).strip():
\* the leftmost match, its lazy group ending at the first closing fence
FenceGroup(s, p) ==
  LET i == CHOOSE k \in MatchStarts(s, p) : \A m \in MatchStarts(s, p) : k <= m
      g == GroupStart(s, p, i)
      j == CHOOSE k \in g..Len(s) : s[k] = "fence" /\ \A m \in g..(k-1) : s[m] # "fence"
  IN  Strip(SubSeq(s, g, j - 1))

\* the for loop over fence_patterns: the first pattern that matches and
\* whose group holds a marker replaces the text
UsablePatterns(s) ==
  {p \in fence_patterns : MatchStarts(s, p) # {} /\ HasMarker(FenceGroup(s, p))}

StripFences(s) ==
  IF UsablePatterns(s) = {} THEN s
  ELSE FenceGroup(s, CHOOSE p \in UsablePatterns(s) : \A q \in UsablePatterns(s) : p <= q)

\* (variant: the preamble of the original is never found)
extract_preamble_from_original_none(original_tex) == <<>>

extract_preamble_from_original(original_tex) ==
  IF Contains(original_tex, "bd")
  THEN SubSeq(original_tex, 1, Find(original_tex, "bd") - 1)
  ELSE <<>>

\* the if/elif on \documentclass and \begin{document}
RecoverStart(text, original_tex) ==
  IF Contains(text, "dc") THEN SubSeq(text, Find(text, "dc"), Len(text))
  ELSE IF Contains(text, "bd")
  THEN LET body     == SubSeq(text, Find(text, "bd"), Len(text))
           preamble == extract_preamble_from_original(original_tex)
       IN  IF preamble # <<>> THEN preamble \o body ELSE body
  ELSE text

\* text[:match.end()] for the first \end{document}
TruncateAfterEnd(text) ==
  IF Contains(text, "ed") THEN SubSeq(text, 1, Find(text, "ed")) ELSE text

\* (variant: only an empty text is rejected)
ExtractionFails_onlyempty(text) == text = <<>>

\* the validation at the end of the extractor: TRUE when it raises
ExtractionFails(text) == ~Contains(text, "dc") /\ ~Contains(text, "bd")

extract_latex_from_response(response_text, original_tex) ==
  LET text == TruncateAfterEnd(RecoverStart(StripFences(Strip(response_text)), original_tex))
  IN  [ok |-> ~ExtractionFails(text), text |-> text]

\* ------------------------------------------------------- configuration

MIN_FILL_RATIO == 880
MAX_FILL_RATIO == 960
max_optimization_attempts == 5

\* calculate_fill_ratio's defaults: no content blocks, and any internal failure
NoBlocksDefault == 500
FailureDefault == 900

\* ------------------------------------------------------------ the inputs

Runs == {1, 2}

\* uploads the model lets happen while requests are served
MaxUploads == 1

\* reference documents a user uploads: one with a preamble, one that starts
\* at \begin{document}
RefFull == <<"dc", "x", "bd", "x", "ed">>
RefNoPreamble == <<"bd", "x", "ed">>
UploadDocs == {RefFull, RefNoPreamble}
Uploads == {[content |-> RefFull, filename |-> "main.tex"],
            [content |-> RefNoPreamble, filename |-> "cv.tex"]}

\* replies of the generative service (no contract on their format)
ReplyFull == <<"nl", "dc", "bd", "x", "ed", "nl">>
ReplyFenced == <<"x", "nl", "fence", "latex", "nl", "dc", "bd", "x", "ed", "nl", "fence", "x">>
ReplyBodyOnly == <<"bd", "x", "ed", "x">>
ReplyNoBody == <<"dc", "x">>
ReplyProse == <<"x", "nl", "x">>
Replies == {ReplyFull, ReplyFenced, ReplyBodyOnly, ReplyNoBody, ReplyProse}

\* what a successful compilation can report: the page count PyPDF2 reads and
\* the value calculate_fill_ratio returns for the first page
PageCounts == {1, 2}
MeasuredFills == {876, 880, 960, 964}
AnalyzerResults == MeasuredFills \cup {NoBlocksDefault, FailureDefault}

\* Path(filename).stem or "resume"
Stem(filename) ==
  IF filename = "main.tex" THEN "main"
  ELSE IF filename = "cv.tex" THEN "cv"
  ELSE "resume"

Stems == {"main", "cv", "resume"}

\* round(fill_ratio, 2) on thousandths: to the nearest hundredth, a tie to the
\* even hundredth (the inputs above hold no tie)
Round2(f) ==
  LET q == f \div 10
      m == f % 10
  IN  IF m < 5 THEN 10 * q
      ELSE IF m > 5 THEN 10 * (q + 1)
      ELSE IF q % 2 = 0 THEN 10 * q ELSE 10 * (q + 1)

\* ------------------------------------------------------------- the state

VARIABLES
  current_resume,    \* the global dict: content, filename, file_type
  saved_file,        \* SAVED_RESUME_FILE on disk
  compiled,          \* COMPILED_FOLDER: stem -> the artifact stored as stem.pdf
  n_uploads,         \* uploads served so far
  clients,           \* the requests that are issued in this behaviour
  pc,                \* where each /tailor request stands
  tailored_content,  \* tailor_resume's locals, per request
  filename_stem,
  attempt,
  adjustment_count,
  adjustment_type,
  page_count,
  fill_ratio,
  render_call,       \* which call of compile_latex_to_pdf is made: search or final
  save_final,        \* its save_final argument
  render,            \* the call's workspace and locals while it runs
  request,           \* the arguments of the correction request in flight
  outcome,           \* the branch the loop body took at its last evaluation
  response,          \* the reply sent to the caller
  hist,              \* observations of the run (not program state)
  extraction,        \* one call of extract_latex_from_response taken alone
  analysis           \* one call of calculate_fill_ratio taken alone

alone == <<extraction, analysis>>
glob == <<current_resume, saved_file, compiled, n_uploads, clients, alone>>
locals == <<tailored_content, filename_stem, attempt, adjustment_count, adjustment_type,
            page_count, fill_ratio>>
vars == <<glob, pc, locals, render_call, save_final, render, request, outcome, response, hist>>

NoArtifact == [exists |-> FALSE, run |-> 0, src |-> <<>>]
OldArtifact == [exists |-> TRUE, run |-> 0, src |-> <<>>]

NoFill == 0 - 1
NoRequest == [dir |-> "none", fill |-> NoFill, pages |-> 0, original |-> <<>>]
NoResult == [page_count |-> 0, fill_ratio |-> NoFill, analyzed |-> FALSE]

\* no call of compile_latex_to_pdf is running: no workspace, no locals
NoRender == [tmpdir |-> FALSE, tex_file |-> <<>>, result |-> NoResult]

NoResponse ==
  [status |-> 0, success |-> FALSE, error |-> "", original_filename |-> "",
   file_type |-> "", tailored_resume |-> <<>>, page_count |-> 0, fill_ratio |-> NoFill,
   was_adjusted |-> FALSE, adjustment_count |-> 0, adjustment_type |-> "None",
   compiled_pdf_url |-> ""]

EmptyResume == [content |-> <<>>, filename |-> "", file_type |-> ""]

NoHist ==
  [service_calls |-> 0, corrections |-> 0, search_renders |-> 0, renders |-> 0,
   durable_writes |-> 0, error |-> "none", first |-> "none", all_violating |-> TRUE,
   final |-> NoResult, start |-> EmptyResume]

\* no call is being looked at alone
NoExtraction == [pc |-> "none", response_text |-> <<>>, original_tex |-> <<>>,
                 ok |-> FALSE, text |-> <<>>]
NoAnalysis == [pc |-> "none"]

\* The server after startup, with the requests in cl still to come.
\* load_saved_resume: main.tex is loaded when it exists (saved is not empty);
\* the compiled folder holds what earlier runs left (a).
Server(saved, a, cl) ==
  /\ saved_file = [exists |-> saved # <<>>, content |-> saved]
  /\ current_resume = IF saved # <<>>
                      THEN [content |-> saved, filename |-> "main.tex", file_type |-> "tex"]
                      ELSE EmptyResume
  /\ compiled = [s \in Stems |-> a]
  /\ n_uploads = 0
  /\ clients = cl
  /\ pc = [r \in Runs |-> "idle"]
  /\ tailored_content = [r \in Runs |-> <<>>]
  /\ filename_stem = [r \in Runs |-> ""]
  /\ attempt = [r \in Runs |-> 0]
  /\ adjustment_count = [r \in Runs |-> 0]
  /\ adjustment_type = [r \in Runs |-> "None"]
  /\ page_count = [r \in Runs |-> 0]
  /\ fill_ratio = [r \in Runs |-> NoFill]
  /\ render_call = [r \in Runs |-> "none"]
  /\ save_final = [r \in Runs |-> FALSE]
  /\ render = [r \in Runs |-> NoRender]
  /\ request = [r \in Runs |-> NoRequest]
  /\ outcome = [r \in Runs |-> "none"]
  /\ response = [r \in Runs |-> NoResponse]
  /\ hist = [r \in Runs |-> NoHist]

\* one /tailor request is served, uploads may come in between
Init ==
  /\ \E saved \in {<<>>} \cup UploadDocs, a \in {NoArtifact, OldArtifact} :
       Server(saved, a, {1})
  /\ extraction = NoExtraction
  /\ analysis = NoAnalysis

\* ------------------------------------------------------------ /upload

\* save_resume_to_disk: the write, or a failure that is only printed
save_resume_to_disk(content, written) ==
  IF written THEN [exists |-> TRUE, content |-> content] ELSE saved_file

\* upload_file, for a request that carries an allowed .tex file
Upload ==
  /\ n_uploads < MaxUploads
  /\ \E file \in Uploads, written \in BOOLEAN :
       /\ current_resume' = [content |-> file.content, filename |-> file.filename,
                             file_type |-> "tex"]
       /\ saved_file' = save_resume_to_disk(file.content, written)
  /\ n_uploads' = n_uploads + 1
  /\ UNCHANGED <<compiled, clients, pc, locals, render_call, save_final, render, request,
                 outcome, response, hist, alone>>

\* ------------------------------------------------------------ /tailor

\* str(e) of the exceptions the handler's except clause turns into a 500 reply
ErrorMessage(kind) ==
  CASE kind = "service"      -> "Perplexity API error"
    [] kind = "extraction"   -> "Could not extract valid LaTeX from API response"
    [] kind = "no_compiler"  -> "pdflatex binary not found"
    [] kind = "timeout"      -> "Command timed out after 120 seconds"
    [] kind = "rejected"     -> "LaTeX compilation failed"
    [] kind = "no_pdf"       -> "LaTeX compilation did not produce a PDF file."
    [] kind = "unreadable"   -> "PDF could not be read"
    [] kind = "unlink"       -> "pdflatex binary not found"
    [] kind = "copy"         -> "Could not write the compiled PDF"

ErrorResponse(status, message) ==
  [NoResponse EXCEPT !.status = status, !.error = message]

\* (variant: the workspace is left behind)
Cleanup_leak(r) == render

\* with tempfile.TemporaryDirectory() as tmpdir: the block is left, by a
\* return or by an exception, and the directory is removed
Cleanup(r) == [render EXCEPT ![r] = NoRender]

\* (variant: the failing call is tried again instead of ending the request)
Fails_retry(r, kind) ==
  /\ pc' = pc
  /\ response' = response
  /\ render' = Cleanup(r)
  /\ request' = request

\* An exception reaches the handler's except clause:
\*   return jsonify({"error": str(e)}), 500
\* Every call in progress is left, a workspace is removed on the way.
Fails(r, kind) ==
  /\ pc' = [pc EXCEPT ![r] = "done"]
  /\ response' = [response EXCEPT ![r] = ErrorResponse(500, ErrorMessage(kind))]
  /\ render' = Cleanup(r)
  /\ request' = [request EXCEPT ![r] = NoRequest]

\* (variant: the search render is asked to save its artifact)
SearchRenderSaves_durable == TRUE

\* the save_final argument at the two call sites of compile_latex_to_pdf
SearchRenderSaves == FALSE
FinalRenderSaves == TRUE

\* the two checks before the try block, then the first query is sent
Start(r) ==
  /\ pc[r] = "idle"
  /\ r \in clients
  /\ \E has_job_description \in BOOLEAN :
       IF ~has_job_description
       THEN /\ pc' = [pc EXCEPT ![r] = "done"]
            /\ response' = [response EXCEPT ![r] = ErrorResponse(400, "No job description provided")]
            /\ hist' = hist
       ELSE IF current_resume.content = <<>>
       THEN /\ pc' = [pc EXCEPT ![r] = "done"]
            /\ response' = [response EXCEPT ![r] = ErrorResponse(400, "No resume uploaded. Please upload a resume first.")]
            /\ hist' = hist
       ELSE /\ pc' = [pc EXCEPT ![r] = "query"]
            /\ response' = response
            /\ hist' = [hist EXCEPT ![r].service_calls = @ + 1, ![r].start = current_resume]
  /\ UNCHANGED <<glob, locals, render_call, save_final, render, request, outcome>>

\* query_perplexity raises: no API key, a non-200 status, a timeout
QueryFails(r) ==
  /\ pc[r] = "query"
  /\ Fails(r, "service")
  /\ hist' = [hist EXCEPT ![r].error = "service"]
  /\ UNCHANGED <<glob, locals, render_call, save_final, outcome>>

\* the first reply arrives: extraction against the resume loaded now, the
\* loop's locals are initialised and the loop is entered
QueryReturns(r) ==
  /\ pc[r] = "query"
  /\ \E reply \in Replies :
       LET ex == extract_latex_from_response(reply, current_resume.content)
       IN  IF ~ex.ok
           THEN /\ Fails(r, "extraction")
                /\ hist' = [hist EXCEPT ![r].error = "extraction"]
                /\ UNCHANGED <<locals, render_call, save_final>>
           ELSE /\ pc' = [pc EXCEPT ![r] = "render"]
                /\ tailored_content' = [tailored_content EXCEPT ![r] = ex.text]
                /\ filename_stem' = [filename_stem EXCEPT ![r] = Stem(current_resume.filename)]
                /\ attempt' = [attempt EXCEPT ![r] = 0]
                /\ adjustment_count' = [adjustment_count EXCEPT ![r] = 0]
                /\ adjustment_type' = [adjustment_type EXCEPT ![r] = "None"]
                /\ render_call' = [render_call EXCEPT ![r] = "search"]
                /\ save_final' = [save_final EXCEPT ![r] = SearchRenderSaves]
                /\ UNCHANGED <<page_count, fill_ratio, render, request, response, hist>>
  /\ UNCHANGED <<glob, outcome>>

\* ---------------------------------------------- compile_latex_to_pdf

\* fill_ratio = calculate_fill_ratio(str(pdf_path)): called for every
\* artifact, whatever its page count
Analyze(pages, measured) == [called |-> TRUE, value |-> measured]

\* a render violates the constraints
Violates(pages, fill) == pages > 1 \/ fill < MIN_FILL_RATIO \/ fill > MAX_FILL_RATIO

\* (variant: the reply reports the last search render, not the final one)
ResponsePayload_stale(r, pages, fill) ==
  [status |-> 200, success |-> TRUE, error |-> "",
   original_filename |-> current_resume.filename,
   file_type |-> current_resume.file_type,
   tailored_resume |-> tailored_content[r],
   page_count |-> page_count[r],
   fill_ratio |-> Round2(fill_ratio[r]),
   was_adjusted |-> adjustment_count[r] > 0,
   adjustment_count |-> adjustment_count[r],
   adjustment_type |-> adjustment_type[r],
   compiled_pdf_url |-> filename_stem[r]]

\* the payload of a successful reply
ResponsePayload(r, pages, fill) ==
  [status |-> 200, success |-> TRUE, error |-> "",
   original_filename |-> current_resume.filename,
   file_type |-> current_resume.file_type,
   tailored_resume |-> tailored_content[r],
   page_count |-> pages,
   fill_ratio |-> Round2(fill),
   was_adjusted |-> adjustment_count[r] > 0,
   adjustment_count |-> adjustment_count[r],
   adjustment_type |-> adjustment_type[r],
   compiled_pdf_url |-> filename_stem[r]]

\* compile_latex_to_pdf returns res to its caller and the workspace is
\* removed: the loop body goes on to evaluate res, the final call builds the
\* reply.  h is the run's record of observations at the return.
Returns(r, res, h) ==
  /\ render' = Cleanup(r)
  /\ page_count' = [page_count EXCEPT ![r] = res.page_count]
  /\ fill_ratio' = [fill_ratio EXCEPT ![r] = res.fill_ratio]
  /\ IF render_call[r] = "search"
     THEN /\ pc' = [pc EXCEPT ![r] = "evaluate"]
          /\ response' = response
          /\ hist' = [hist EXCEPT ![r] =
               [h EXCEPT !.first = IF h.search_renders = 1
                                   THEN (IF Violates(res.page_count, res.fill_ratio)
                                         THEN "violating" ELSE "accepted")
                                   ELSE @,
                         !.all_violating = @ /\ Violates(res.page_count, res.fill_ratio)]]
     ELSE /\ pc' = [pc EXCEPT ![r] = "done"]
          /\ response' = [response EXCEPT ![r] = ResponsePayload(r, res.page_count, res.fill_ratio)]
          /\ hist' = [hist EXCEPT ![r] = [h EXCEPT !.final = res]]

\* (variant: the uploaded resume is rendered)
RenderedSource_original(r) == current_resume.content

\* the tex_content argument of both calls of compile_latex_to_pdf
RenderedSource(r) == tailored_content[r]

\* the workspace is created, the source written, pdflatex launched
CompileStart(r) ==
  /\ pc[r] = "render"
  /\ \E launched \in BOOLEAN :
       LET h == [hist[r] EXCEPT !.renders = @ + 1,
                                !.search_renders = IF render_call[r] = "search" THEN @ + 1 ELSE @]
       IN  IF launched
           THEN /\ pc' = [pc EXCEPT ![r] = "pdflatex"]
                /\ render' = [render EXCEPT ![r] =
                                [tmpdir |-> TRUE, tex_file |-> RenderedSource(r),
                                 result |-> NoResult]]
                /\ hist' = [hist EXCEPT ![r] = h]
                /\ UNCHANGED <<request, response>>
           ELSE /\ Fails(r, "no_compiler")
                /\ hist' = [hist EXCEPT ![r] = [h EXCEPT !.error = "no_compiler"]]
  /\ UNCHANGED <<glob, locals, render_call, save_final, outcome>>

CompileErrors == {"timeout", "rejected", "no_pdf", "unreadable"}

\* pdflatex ends: a timeout, a non-zero exit, no PDF, a PDF PyPDF2 cannot
\* read, or an artifact that is measured
CompileFinish(r) ==
  /\ pc[r] = "pdflatex"
  /\ \/ \E kind \in CompileErrors :
          /\ Fails(r, kind)
          /\ hist' = [hist EXCEPT ![r].error = kind]
          /\ UNCHANGED <<page_count, fill_ratio>>
     \/ \E pages \in PageCounts, measured \in AnalyzerResults :
          LET a   == Analyze(pages, measured)
              res == [page_count |-> pages,
                      fill_ratio |-> IF a.called THEN a.value ELSE NoFill,
                      analyzed |-> a.called]
          IN  IF save_final[r]
              THEN /\ pc' = [pc EXCEPT ![r] = "exists"]
                   /\ render' = [render EXCEPT ![r].result = res]
                   /\ UNCHANGED <<page_count, fill_ratio, request, response, hist>>
              ELSE /\ Returns(r, res, hist[r])
                   /\ request' = request
  /\ UNCHANGED <<glob, tailored_content, filename_stem, attempt, adjustment_count,
                 adjustment_type, render_call, save_final, outcome>>

\* if final_path.exists():
SaveExists(r) ==
  /\ pc[r] = "exists"
  /\ pc' = [pc EXCEPT ![r] = IF compiled[filename_stem[r]].exists THEN "unlink" ELSE "copy"]
  /\ UNCHANGED <<glob, locals, render_call, save_final, render, request, outcome, response, hist>>

\* final_path.unlink(): a missing file raises FileNotFoundError, which the
\* except clause of compile_latex_to_pdf reports as a missing pdflatex
SaveUnlink(r) ==
  /\ pc[r] = "unlink"
  /\ IF compiled[filename_stem[r]].exists
     THEN /\ compiled' = [compiled EXCEPT ![filename_stem[r]] = NoArtifact]
          /\ pc' = [pc EXCEPT ![r] = "copy"]
          /\ UNCHANGED <<render, request, response, hist>>
     ELSE /\ Fails(r, "unlink")
          /\ hist' = [hist EXCEPT ![r].error = "unlink"]
          /\ compiled' = compiled
  /\ UNCHANGED <<current_resume, saved_file, n_uploads, clients, alone, locals, render_call,
                 save_final, outcome>>

\* (variant: the run's final text is written over the saved resume)
PersistedAfterRun_writeback(r) == [exists |-> TRUE, content |-> tailored_content[r]]

\* the saved resume once the final render has returned and the reply is
\* built: tailor_resume writes nothing to it
PersistedAfterRun(r) == saved_file

\* shutil.copy(pdf_path, final_path) and the return
SaveCopy(r) ==
  /\ pc[r] = "copy"
  /\ \E copied \in BOOLEAN :
       IF copied
       THEN /\ compiled' = [compiled EXCEPT ![filename_stem[r]] =
                              [exists |-> TRUE, run |-> r, src |-> render[r].tex_file]]
            /\ Returns(r, render[r].result, [hist[r] EXCEPT !.durable_writes = @ + 1])
            /\ saved_file' = PersistedAfterRun(r)
            /\ request' = request
       ELSE /\ Fails(r, "copy")
            /\ hist' = [hist EXCEPT ![r].error = "copy"]
            /\ UNCHANGED <<saved_file, compiled, page_count, fill_ratio>>
  /\ UNCHANGED <<current_resume, n_uploads, clients, alone, tailored_content,
                 filename_stem, attempt, adjustment_count, adjustment_type, render_call,
                 save_final, outcome>>

\* ------------------------------------------------- the optimization loop

\* (variant: two pages are let through)
TooLong_twopages(pages) == pages > 2

\* if page_count > 1:
TooLong(pages) == pages > 1

\* (variant: the lower bound of the band is exclusive)
TooSparse_strict(fill) == fill <= MIN_FILL_RATIO

\* if fill_ratio < MIN_FILL_RATIO:
TooSparse(fill) == fill < MIN_FILL_RATIO

\* (variant: the upper bound of the band is exclusive)
TooDense_strict(fill) == fill >= MAX_FILL_RATIO

\* elif fill_ratio > MAX_FILL_RATIO:
TooDense(fill) == fill > MAX_FILL_RATIO

\* (variant: one attempt too many)
HasBudget_offbyone(att) == att <= max_optimization_attempts

\* if attempt < max_optimization_attempts:
HasBudget(att) == att < max_optimization_attempts

\* (variant: the fill ratio is tested before the page count)
LoopBranch_fillfirst(pages, fill, att) ==
  IF TooSparse(fill)
  THEN IF HasBudget(att) THEN "expand" ELSE "optimized"
  ELSE IF TooLong(pages)
  THEN IF HasBudget(att) THEN "shorten" ELSE "warned"
  ELSE IF TooDense(fill)
  THEN IF HasBudget(att) THEN "shorten" ELSE "optimized"
  ELSE "optimized"

\* The path through the loop body for one render:
\*   "shorten", "expand"  a correction request is made and the loop continues
\*   "warned"             the break after the could-not-fit warning
\*   "optimized"          the success message and the break after it
LoopBranch(pages, fill, att) ==
  IF TooLong(pages)
  THEN IF HasBudget(att) THEN "shorten" ELSE "warned"
  ELSE IF TooSparse(fill)
  THEN IF HasBudget(att) THEN "expand" ELSE "optimized"
  ELSE IF TooDense(fill)
  THEN IF HasBudget(att) THEN "shorten" ELSE "optimized"
  ELSE "optimized"

\* the arguments shorten_resume / expand_resume are called with
CorrectionArgs(r, dir) ==
  [dir |-> dir, fill |-> fill_ratio[r], pages |-> page_count[r],
   original |-> current_resume.content]

\* (variant: the counter is not advanced)
Adjusted_skip(count) == count

\* adjustment_count += 1
Adjusted(count) == count + 1

\* the loop body after a search render returned
Evaluate(r) ==
  /\ pc[r] = "evaluate"
  /\ LET b == LoopBranch(page_count[r], fill_ratio[r], attempt[r])
     IN  /\ outcome' = [outcome EXCEPT ![r] = b]
         /\ IF b \in {"shorten", "expand"}
            THEN /\ adjustment_count' = [adjustment_count EXCEPT ![r] = Adjusted(@)]
                 /\ adjustment_type' = [adjustment_type EXCEPT ![r] =
                                          IF b = "shorten" THEN "shortened" ELSE "expanded"]
                 /\ request' = [request EXCEPT ![r] = CorrectionArgs(r, b)]
                 /\ pc' = [pc EXCEPT ![r] = "correct"]
                 /\ hist' = [hist EXCEPT ![r].corrections = @ + 1, ![r].service_calls = @ + 1]
                 /\ UNCHANGED <<render_call, save_final>>
            ELSE /\ pc' = [pc EXCEPT ![r] = "render"]
                 /\ render_call' = [render_call EXCEPT ![r] = "final"]
                 /\ save_final' = [save_final EXCEPT ![r] = FinalRenderSaves]
                 /\ UNCHANGED <<adjustment_count, adjustment_type, request, hist>>
  /\ UNCHANGED <<glob, tailored_content, filename_stem, attempt, page_count, fill_ratio,
                 render, response>>

\* the correction's query_perplexity raises
CorrectionFails(r) ==
  /\ pc[r] = "correct"
  /\ Fails(r, "service")
  /\ hist' = [hist EXCEPT ![r].error = "service"]
  /\ UNCHANGED <<glob, locals, render_call, save_final, outcome>>

\* the correction's reply arrives: extraction, tailored_content is replaced,
\* and continue takes the next attempt of range(max_optimization_attempts + 1)
CorrectionReturns(r) ==
  /\ pc[r] = "correct"
  /\ \E reply \in Replies :
       LET ex == extract_latex_from_response(reply, request[r].original)
       IN  IF ~ex.ok
           THEN /\ Fails(r, "extraction")
                /\ hist' = [hist EXCEPT ![r].error = "extraction"]
                /\ UNCHANGED <<tailored_content, attempt, render_call, save_final>>
           ELSE /\ tailored_content' = [tailored_content EXCEPT ![r] = ex.text]
                /\ request' = [request EXCEPT ![r] = NoRequest]
                /\ pc' = [pc EXCEPT ![r] = "render"]
                /\ IF attempt[r] + 1 <= max_optimization_attempts
                   THEN /\ attempt' = [attempt EXCEPT ![r] = @ + 1]
                        /\ render_call' = [render_call EXCEPT ![r] = "search"]
                        /\ save_final' = [save_final EXCEPT ![r] = SearchRenderSaves]
                   ELSE /\ attempt' = attempt
                        /\ render_call' = [render_call EXCEPT ![r] = "final"]
                        /\ save_final' = [save_final EXCEPT ![r] = FinalRenderSaves]
                /\ UNCHANGED <<render, response, hist>>
  /\ UNCHANGED <<glob, filename_stem, adjustment_count, adjustment_type, page_count,
                 fill_ratio, outcome>>

\* ------------------------------------------------------ specification

Next ==
  \/ Upload
  \/ \E r \in Runs : Start(r)
  \/ \E r \in Runs : QueryFails(r)
  \/ \E r \in Runs : QueryReturns(r)
  \/ \E r \in Runs : CompileStart(r)
  \/ \E r \in Runs : CompileFinish(r)
  \/ \E r \in Runs : SaveExists(r)
  \/ \E r \in Runs : SaveUnlink(r)
  \/ \E r \in Runs : SaveCopy(r)
  \/ \E r \in Runs : Evaluate(r)
  \/ \E r \in Runs : CorrectionFails(r)
  \/ \E r \in Runs : CorrectionReturns(r)

Spec == Init /\ [][Next]_vars

\* the steps of one request
RunStep(r) ==
  \/ Start(r) \/ QueryFails(r) \/ QueryReturns(r)
  \/ CompileStart(r) \/ CompileFinish(r)
  \/ SaveExists(r) \/ SaveUnlink(r) \/ SaveCopy(r)
  \/ Evaluate(r) \/ CorrectionFails(r) \/ CorrectionReturns(r)

\* every external call of an issued request returns, and the handler goes on
SpecFair == Spec /\ \A r \in Runs : WF_vars(RunStep(r))

\* ----------------------------------------- two /tailor requests at once

\* both requests are issued; no upload comes in
InitConc ==
  /\ \E saved \in UploadDocs, a \in {NoArtifact, OldArtifact} : Server(saved, a, Runs)
  /\ extraction = NoExtraction
  /\ analysis = NoAnalysis

\* the renders that are looked at: one page, fill ratio 0.9, so that a run
\* goes from its first search render to its final render
Fits == [page_count |-> 1, fill_ratio |-> FailureDefault, analyzed |-> TRUE]
AllFit ==
  \A r \in Runs : /\ render'[r].result \in {NoResult, Fits}
                  /\ page_count'[r] \in {0, Fits.page_count}
                  /\ fill_ratio'[r] \in {NoFill, Fits.fill_ratio}

NextConc ==
  \/ \E r \in Runs : Start(r) /\ AllFit
  \/ \E r \in Runs : QueryFails(r) /\ AllFit
  \/ \E r \in Runs : QueryReturns(r) /\ AllFit
  \/ \E r \in Runs : CompileStart(r) /\ AllFit
  \/ \E r \in Runs : CompileFinish(r) /\ AllFit
  \/ \E r \in Runs : SaveExists(r) /\ AllFit
  \/ \E r \in Runs : SaveUnlink(r) /\ AllFit
  \/ \E r \in Runs : SaveCopy(r) /\ AllFit
  \/ \E r \in Runs : Evaluate(r) /\ AllFit

SpecConc == InitConc /\ [][NextConc]_vars

\* ------------------------------- extract_latex_from_response, alone

\* the tokens a reply is made of, and the longest reply looked at
Tokens == {"dc", "bd", "ed", "fence", "latex", "nl", "x"}
MaxReplyLen == 5
TextsUpTo(n) == UNION {[1..k -> Tokens] : k \in 0..n}

\* the original_tex argument: the default "", a resume with a preamble, one
\* that starts at \begin{document}, one whose head holds no \documentclass
RefNoClass == <<"x", "bd", "x", "ed">>
OriginalTexts == {<<>>, RefFull, RefNoPreamble, RefNoClass}

\* a call extract_latex_from_response(response_text, original_tex) is made
InitExtract ==
  /\ Server(<<>>, NoArtifact, {})
  /\ \E t \in TextsUpTo(MaxReplyLen), o \in OriginalTexts :
       extraction = [pc |-> "called", response_text |-> t, original_tex |-> o,
                     ok |-> FALSE, text |-> <<>>]
  /\ analysis = NoAnalysis

\* the call returns its text, or raises
Extract ==
  /\ extraction.pc = "called"
  /\ LET ex == extract_latex_from_response(extraction.response_text, extraction.original_tex)
     IN  extraction' = [extraction EXCEPT !.pc = IF ex.ok THEN "returned" ELSE "raised",
                                          !.ok = ex.ok,
                                          !.text = IF ex.ok THEN ex.text ELSE <<>>]
  /\ UNCHANGED <<current_resume, saved_file, compiled, n_uploads, clients, analysis, pc,
                 locals, render_call, save_final, render, request, outcome, response, hist>>

NextExtract == Extract

SpecExtract == InitExtract /\ [][NextExtract]_vars

\* ------------------------------------------ calculate_fill_ratio, alone

\* what can go wrong inside the try block: import fitz, fitz.open, doc[0],
\* page.get_text
Failures == {"none", "import", "open", "no_page", "get_text"}

\* page heights, block coordinates (points) and the most blocks on a page
PageHeights == {20, 36, 100}
Ys == {0 - 8, 0, 32, 64, 100, 120}
MaxBlocks == 2
RECURSIVE BlockSetsUpTo(_)
BlockSetsUpTo(n) ==
  IF n = 0 THEN {{}}
  ELSE LET fewer == BlockSetsUpTo(n - 1)
       IN  fewer \cup {b \cup {x} : b \in fewer, x \in Ys \X Ys}
BlockSets == BlockSetsUpTo(MaxBlocks)

bottom_margin == 36

Minimum(S) == CHOOSE x \in S : \A y \in S : x <= y
Maximum(S) == CHOOSE x \in S : \A y \in S : y <= x

\* (variant: the ratio is returned as computed)
Clamp_none(ratio) == ratio

\* min(max(fill_ratio, 0.0), 1.0), in thousandths
Clamp(ratio) == Minimum({Maximum({ratio, 0}), 1000})

\* (variant: the handler lets the exception through)
Handler_reraise(failure) == [raised |-> TRUE, value |-> NoFill]

\* except Exception as e: ... return 0.9
Handler(failure) == [raised |-> FALSE, value |-> FailureDefault]

\* (variant: no bottom margin is taken off)
UsableHeight_nomargin(page_height, top_margin) == page_height - top_margin

\* usable_bottom = page_height - bottom_margin
\* usable_height = usable_bottom - top_margin
UsableHeight(page_height, top_margin) == (page_height - bottom_margin) - top_margin

\* the try block once the first page and its blocks are read
Measure(page_height, blocks) ==
  IF blocks = {}
  THEN [raised |-> FALSE, value |-> NoBlocksDefault]
  ELSE LET content_top    == Minimum({page_height} \cup {b[1] : b \in blocks})
           content_bottom == Maximum({0} \cup {b[2] : b \in blocks})
           top_margin     == content_top
           usable_height  == UsableHeight(page_height, top_margin)
           content_used   == content_bottom - top_margin
           ratio          == IF usable_height > 0
                             THEN (content_used * 1000) \div usable_height
                             ELSE FailureDefault
       IN  [raised |-> FALSE, value |-> Clamp(ratio)]

calculate_fill_ratio(pdf) ==
  IF pdf.failure # "none"
  THEN Handler(pdf.failure)
  ELSE Measure(pdf.page_height, pdf.blocks)

\* a call calculate_fill_ratio(pdf_path) is made on some artifact
InitAnalyze ==
  /\ Server(<<>>, NoArtifact, {})
  /\ extraction = NoExtraction
  /\ \E f \in Failures, h \in PageHeights, b \in BlockSets :
       analysis = [pc |-> "called", failure |-> f, page_height |-> h, blocks |-> b,
                   value |-> NoFill]

\* the call returns a ratio, or raises
AnalyzeCall ==
  /\ analysis.pc = "called"
  /\ LET res == calculate_fill_ratio(analysis)
     IN  analysis' = [analysis EXCEPT !.pc = IF res.raised THEN "raised" ELSE "returned",
                                      !.value = res.value]
  /\ UNCHANGED <<current_resume, saved_file, compiled, n_uploads, clients, extraction, pc,
                 locals, render_call, save_final, render, request, outcome, response, hist>>

NextAnalyze == AnalyzeCall

SpecAnalyze == InitAnalyze /\ [][NextAnalyze]_vars

TypeOK ==
  /\ pc \in [Runs -> {"idle", "query", "render", "pdflatex", "exists", "unlink", "copy",
                      "evaluate", "correct", "done"}]
  /\ attempt \in [Runs -> 0..max_optimization_attempts]
  /\ \A r \in Runs : fill_ratio[r] \in AnalyzerResults \cup {NoFill}

\* ------------------------------------------------------------ the claims

\* the run ended with a reply and none of its calls failed
Completed(r) == pc[r] = "done" /\ hist[r].error = "none" /\ hist[r].search_renders >= 1

\* the loop has left through one of its two break statements
Decided(r) == outcome[r] \in {"optimized", "warned"}

\* all six search renders were made and each violated the constraints
Exhausted(r) == hist[r].all_violating /\ hist[r].search_renders = 6

\* C1: when every search render violates the constraints and no call fails,
\* the loop makes exactly 5 correction requests (6 search renders), then
\* stops and makes one final render, which writes the durable artifact.
C1_ExhaustsBudget ==
  \A r \in Runs :
    /\ (render_call[r] = "final" /\ hist[r].all_violating) => hist[r].corrections = 5
    /\ (Completed(r) /\ hist[r].all_violating) =>
         /\ hist[r].corrections = 5
         /\ hist[r].search_renders = 6
         /\ hist[r].renders = 7
         /\ hist[r].durable_writes = 1
         /\ compiled[filename_stem[r]] =
              [exists |-> TRUE, run |-> r, src |-> tailored_content[r]]

C1_Witness ==
  \E r \in Runs : Completed(r) /\ hist[r].all_violating /\ hist[r].corrections = 5
                  /\ hist[r].durable_writes = 1

\* C2: every run that is started ends, whatever the renderer and the service
\* return, after at most 5 correction requests, 6 search renders and 7
\* renders in all.
C2_Terminates ==
  /\ [](\A r \in Runs : /\ hist[r].corrections <= 5
                        /\ hist[r].search_renders <= 6
                        /\ hist[r].renders <= 7)
  /\ \A r \in Runs : (pc[r] # "idle") ~> (pc[r] = "done")

C2_Witness ==
  \E r \in Runs : pc[r] = "done" /\ hist[r].corrections = 5 /\ hist[r].renders = 7

\* C3: after a render that reports more than one page the loop body never
\* accepts and never asks to expand, for any fill ratio; with budget left it
\* asks to shorten.
C3_PageCountFirst ==
  [][\A r \in Runs :
       (pc[r] = "evaluate" /\ page_count[r] > 1 /\ pc'[r] # "evaluate") =>
         /\ outcome'[r] \in {"shorten", "warned"}
         /\ attempt[r] < 5 =>
              /\ pc'[r] = "correct"
              /\ request'[r].dir = "shorten"
              /\ adjustment_type'[r] = "shortened"
              /\ hist'[r].corrections = hist[r].corrections + 1]_vars

C3_Witness ==
  \E r \in Runs : pc[r] = "correct" /\ page_count[r] = 2 /\ fill_ratio[r] < MIN_FILL_RATIO
                  /\ request[r].dir = "shorten"

\* C4: when the first search render reports one page and a fill ratio inside
\* the band, no correction request is ever made: the counters stay 0, no
\* direction is recorded and the text returned is the first extraction (the
\* text is replaced by no step between the first extraction and the first
\* correction request).
C4_AcceptsAtOnce ==
  /\ [](\A r \in Runs :
          hist[r].first = "accepted" =>
            /\ hist[r].corrections = 0
            /\ hist[r].search_renders = 1
            /\ attempt[r] = 0
            /\ adjustment_count[r] = 0
            /\ adjustment_type[r] = "None"
            /\ response[r].status = 200 =>
                 /\ response[r].adjustment_count = 0
                 /\ ~response[r].was_adjusted
                 /\ response[r].adjustment_type = "None"
                 /\ response[r].tailored_resume = tailored_content[r])
  /\ [][\A r \in Runs :
          (pc[r] # "query" /\ hist'[r].corrections = 0) =>
            tailored_content'[r] = tailored_content[r]]_vars

C4_Witness ==
  \E r \in Runs : hist[r].first = "accepted" /\ response[r].status = 200

\* C5: a one-page render whose fill ratio is exactly 0.88 or exactly 0.96 is
\* accepted at any attempt: the loop leaves through its success exit and no
\* correction request is made.
C5_InclusiveBand ==
  [][\A r \in Runs :
       (pc[r] = "evaluate" /\ page_count[r] = 1 /\ fill_ratio[r] \in {880, 960}
        /\ pc'[r] # "evaluate") =>
         /\ outcome'[r] = "optimized"
         /\ pc'[r] = "render"
         /\ render_call'[r] = "final"
         /\ request'[r] = NoRequest
         /\ hist'[r].corrections = hist[r].corrections]_vars

C5_Witness ==
  \E r \in Runs : pc[r] = "render" /\ outcome[r] = "optimized" /\ page_count[r] = 1
                  /\ fill_ratio[r] = 960 /\ attempt[r] = 2

\* C6: a run writes the durable artifact at most once; the compiled folder
\* changes only in the final render, after the loop has decided; a run that
\* fails before the loop has decided has written nothing.
C6_DurableWriteOnce ==
  /\ [](\A r \in Runs :
          /\ hist[r].durable_writes <= 1
          /\ (hist[r].error # "none" /\ ~Decided(r)) => hist[r].durable_writes = 0)
  /\ [][compiled' # compiled =>
          \E r \in Runs : /\ render_call[r] = "final"
                          /\ Decided(r)
                          /\ pc[r] \in {"unlink", "copy"}]_vars

C6_Witness ==
  \E r \in Runs : hist[r].durable_writes = 1 /\ hist[r].search_renders = 3
                  /\ compiled[filename_stem[r]].run = r

\* C7: once a call of the run has failed, the run is over: no render, no
\* correction request and no service call follows, and the reply is a
\* failure that carries the error's message.
C7_HardErrorAborts ==
  /\ [](\A r \in Runs :
          hist[r].error # "none" =>
            /\ pc[r] = "done"
            /\ response[r].status = 500
            /\ ~response[r].success
            /\ response[r].error # ""
            /\ response[r].error = ErrorMessage(hist[r].error))
  /\ [][\A r \in Runs :
          hist[r].error # "none" =>
            /\ hist'[r] = hist[r]
            /\ response'[r] = response[r]
            /\ pc'[r] = pc[r]]_vars

C7_Witness ==
  \E r \in Runs : hist[r].error = "timeout" /\ hist[r].corrections = 2
                  /\ response[r].status = 500

\* C8 as stated: after the budget is used up and no call failed, the reply
\* is a success and its page_count and fill_ratio are the values the final
\* render measured.
C8_ReportsFinalRender ==
  \A r \in Runs :
    (Completed(r) /\ Exhausted(r)) =>
      /\ response[r].status = 200
      /\ response[r].success
      /\ response[r].tailored_resume = tailored_content[r]
      /\ response[r].page_count = hist[r].final.page_count
      /\ response[r].fill_ratio = hist[r].final.fill_ratio

\* C8, amended: after the budget is used up and no call failed, the reply is
\* a success, its page_count is the final render's and its fill_ratio is the
\* final render's fill ratio rounded to the nearest hundredth.
C8_ReportsFinalRenderRounded ==
  \A r \in Runs :
    (Completed(r) /\ Exhausted(r)) =>
      /\ response[r].status = 200
      /\ response[r].success
      /\ response[r].tailored_resume = tailored_content[r]
      /\ response[r].page_count = hist[r].final.page_count
      /\ response[r].fill_ratio % 10 = 0
      /\ response[r].fill_ratio - hist[r].final.fill_ratio \in -5..5

C8_Witness ==
  \E r \in Runs : Completed(r) /\ Exhausted(r) /\ hist[r].final.page_count = 2
                  /\ hist[r].final.fill_ratio = 876 /\ response[r].fill_ratio = 880

\* C9: for a render whose page count is not 1 the fill ratio is not
\* computed: the analyzer is not called on the artifact, the loop holds no
\* fill ratio for it and none is passed to the correction request.
C9_FillRatioOnlyForOnePage ==
  \A r \in Runs :
    /\ (render[r].result # NoResult /\ render[r].result.page_count # 1) =>
         ~render[r].result.analyzed
    /\ (pc[r] \in {"evaluate", "correct"} /\ page_count[r] # 1) => fill_ratio[r] = NoFill
    /\ (pc[r] = "correct" /\ request[r].pages # 1) => request[r].fill = NoFill

\* C10: every source written for the compiler, in a search render or in the
\* final render, holds both \documentclass and \begin{document}.
C10_FullDocumentRendered ==
  \A r \in Runs :
    render[r].tmpdir =>
      Contains(render[r].tex_file, "dc") /\ Contains(render[r].tex_file, "bd")

\* the part of a text before, and from, the first occurrence of a token
Before(s, t) == SubSeq(s, 1, (CHOOSE i \in 1..Len(s) : s[i] = t /\ \A j \in 1..(i-1) : s[j] # t) - 1)
From(s, t) == SubSeq(s, CHOOSE i \in 1..Len(s) : s[i] = t /\ \A j \in 1..(i-1) : s[j] # t, Len(s))
Count(s, t) == Cardinality({i \in 1..Len(s) : s[i] = t})

\* the call of the extractor has ended
Extracted == extraction.pc \in {"returned", "raised"}

\* a reply that is exactly one document: it starts with \documentclass, ends
\* with \end{document} and holds each marker once
WellFormed(s) ==
  /\ Len(s) >= 3
  /\ s[1] = "dc" /\ s[Len(s)] = "ed"
  /\ Count(s, "dc") = 1 /\ Count(s, "bd") = 1 /\ Count(s, "ed") = 1

\* C11: a reply that is exactly a well-formed document is returned unchanged,
\* whatever the reference is.
C11_RoundTrip ==
  (Extracted /\ WellFormed(extraction.response_text)) =>
    /\ extraction.pc = "returned"
    /\ extraction.text = extraction.response_text

\* a reference with a preamble: a head before \begin{document} that holds
\* \documentclass and no \end{document}
HasPreamble(o) ==
  /\ Contains(o, "bd")
  /\ Contains(Before(o, "bd"), "dc")
  /\ ~Contains(Before(o, "bd"), "ed")

\* the reply holds a body but no \documentclass, the reference has a preamble
FallbackCase ==
  /\ Contains(extraction.response_text, "bd")
  /\ ~Contains(extraction.response_text, "dc")
  /\ HasPreamble(extraction.original_tex)

\* C12 as stated: in the fallback case the result is the reference's preamble
\* followed by the reply from its \begin{document} on, and holds both markers.
C12_Fallback ==
  (Extracted /\ FallbackCase) =>
    /\ extraction.pc = "returned"
    /\ extraction.text = Before(extraction.original_tex, "bd")
                           \o From(extraction.response_text, "bd")
    /\ Contains(extraction.text, "dc") /\ Contains(extraction.text, "bd")

\* C12, amended: in the fallback case the result is the reference's preamble
\* followed by the reply's body from its \begin{document} on, where the body
\* is taken from inside the code fence when the reply wraps it in one, has no
\* trailing whitespace and ends with its first \end{document}; the result
\* holds both markers.
C12_FallbackTrimmed ==
  (Extracted /\ FallbackCase) =>
    LET inner == StripFences(Strip(extraction.response_text))
        body  == From(inner, "bd")
        cut   == IF Contains(body, "ed") THEN Before(body, "ed") \o <<"ed">> ELSE body
    IN  /\ extraction.pc = "returned"
        /\ extraction.text = Before(extraction.original_tex, "bd") \o cut
        /\ Contains(extraction.text, "dc") /\ Contains(extraction.text, "bd")

C12_Witness ==
  /\ extraction.pc = "returned"
  /\ FallbackCase
  /\ extraction.response_text = <<"fence", "nl", "bd", "x", "fence">>
  /\ extraction.text = <<"dc", "x", "bd", "x">>

\* C13: a reply that holds neither marker makes the call raise, and a text
\* that is returned holds at least one of the two markers.
C13_Validation ==
  Extracted =>
    /\ (~Contains(extraction.response_text, "dc") /\ ~Contains(extraction.response_text, "bd"))
         => extraction.pc = "raised"
    /\ extraction.pc = "returned"
         => (Contains(extraction.text, "dc") \/ Contains(extraction.text, "bd"))

C13_Witness ==
  /\ extraction.pc = "raised"
  /\ extraction.response_text = <<"fence", "latex", "nl", "x", "fence">>

\* the call of the analyzer has ended
Analyzed == analysis.pc \in {"returned", "raised"}

\* C14: whatever the page height and the blocks are, and in the empty and
\* failure cases too, the ratio the analyzer returns lies between 0 and 1.
C14_RatioInUnitInterval ==
  analysis.pc = "returned" => (0 <= analysis.value /\ analysis.value <= 1000)

\* a block that reaches past the page bottom: the ratio is cut down to 1
C14_Witness ==
  /\ analysis.pc = "returned"
  /\ analysis.failure = "none"
  /\ analysis.page_height = 100
  /\ analysis.blocks = {<<0, 120>>}
  /\ analysis.value = 1000

\* C15: the analyzer never raises: a page without blocks gives 0.5 and any
\* failure inside it gives 0.9.
C15_NeverRaises ==
  Analyzed =>
    /\ analysis.pc = "returned"
    /\ analysis.failure # "none" => analysis.value = FailureDefault
    /\ (analysis.failure = "none" /\ analysis.blocks = {}) => analysis.value = NoBlocksDefault

C15_Witness ==
  /\ analysis.pc = "returned"
  /\ analysis.failure = "no_page"
  /\ analysis.value = FailureDefault

\* C16: whatever uploads come in between, the reference a run hands to each
\* of its corrections, and the document name and type it reports, are those
\* of the resume that was loaded when the run started.
C16_RunIsolated ==
  \A r \in Runs :
    /\ pc[r] = "correct" => request[r].original = hist[r].start.content
    /\ Completed(r) =>
         /\ response[r].original_filename = hist[r].start.filename
         /\ response[r].file_type = hist[r].start.file_type
         /\ filename_stem[r] = Stem(hist[r].start.filename)

\* the positions inside the with block of compile_latex_to_pdf
InRender == {"pdflatex", "exists", "unlink", "copy"}

C20_WrittenBack ==
  \A r \in Runs :
    (Completed(r) /\ Decided(r)) =>
      /\ saved_file.exists
      /\ saved_file.content = tailored_content[r]

\* C20, amended: a run never writes the saved resume nor the resume in
\* memory, only an upload does; when the run has ended on a decision of its
\* loop and without a failure, its final text is what the reply carries.
C20_ReturnedNotWrittenBack ==
  /\ [][n_uploads' = n_uploads =>
          (saved_file' = saved_file /\ current_resume' = current_resume)]_vars
  /\ [](\A r \in Runs :
          (Completed(r) /\ Decided(r)) =>
            /\ response[r].success
            /\ response[r].tailored_resume = tailored_content[r])

\* a run has ended without any upload and the saved resume is not its text
C20_Witness ==
  \E r \in Runs : /\ Completed(r) /\ Decided(r)
                  /\ n_uploads = 0
                  /\ saved_file.exists
                  /\ saved_file.content # tailored_content[r]
                  /\ response[r].tailored_resume = tailored_content[r]

\* the run has ended after its final render compiled and the copy, if it
\* came to it, worked
ReachedDurableWrite(r) ==
  /\ pc[r] = "done"
  /\ render_call[r] = "final"
  /\ hist[r].error \notin CompileErrors \cup {"no_compiler", "copy"}

\* C17: two runs for the same name that both come to their final durable
\* write both end successfully, however their exists-check, delete and copy
\* steps interleave, and the artifact then exists and is the whole artifact of
\* one of them; a search render changes no durable artifact.
C17_LastWriterWins ==
  /\ [](\A r \in Runs :
          ReachedDurableWrite(r) =>
            /\ hist[r].error = "none"
            /\ response[r].success)
  /\ []((\A r \in Runs : ReachedDurableWrite(r)) =>
          \A r \in Runs :
            /\ compiled[filename_stem[r]].exists
            /\ \E w \in Runs : /\ compiled[filename_stem[r]].run = w
                               /\ compiled[filename_stem[r]].src = tailored_content[w])
  /\ [][(\A r \in Runs : render_call[r] # "final") => compiled' = compiled]_vars

\* C19: a failed render reports that pdflatex was not found exactly when the
\* pdflatex executable could not be launched.
C19_CompilerUnavailableIff ==
  \A r \in Runs :
    (pc[r] = "done" /\ response[r].status = 500) =>
      (response[r].error = ErrorMessage("no_compiler") <=> hist[r].error = "no_compiler")

\* the value of adjustment_type a correction in direction dir leaves
TypeOf(dir) == IF dir = "shorten" THEN "shortened" ELSE "expanded"

\* the run is at a search render: called, or pdflatex is running
AtSearchRender(r) == pc[r] \in {"render", "pdflatex"} /\ render_call[r] = "search"

\* C21: attempt never decreases and stays within 0..5; adjustment_count is
\* the number of correction requests issued so far and equals attempt at
\* each search render; adjustment_type is None exactly while no correction
\* was requested, and otherwise names the direction of the latest request.
C21_Bookkeeping ==
  /\ [](\A r \in Runs :
          /\ attempt[r] \in 0..max_optimization_attempts
          /\ adjustment_count[r] = hist[r].corrections
          /\ AtSearchRender(r) => adjustment_count[r] = attempt[r]
          /\ adjustment_type[r] = "None" <=> adjustment_count[r] = 0
          /\ pc[r] = "correct" => adjustment_type[r] = TypeOf(request[r].dir))
  /\ [][\A r \in Runs :
          /\ attempt'[r] >= attempt[r]
          /\ hist'[r].corrections = hist[r].corrections
               => adjustment_type'[r] = adjustment_type[r]
          /\ hist'[r].corrections # hist[r].corrections
               => /\ hist'[r].corrections = hist[r].corrections + 1
                  /\ pc'[r] = "correct"]_vars

\* the fourth search render, after a shorten request and then expand requests
C21_Witness ==
  \E r \in Runs : /\ AtSearchRender(r)
                  /\ attempt[r] = 3
                  /\ adjustment_count[r] = 3
                  /\ adjustment_type[r] = "expanded"

\* C22: a correction request follows the evaluation of the render just
\* before it: expand only after a render of at most one page whose fill
\* ratio is below 0.88, shorten only after a render of more than one page or
\* with a fill ratio above 0.96; between two requests lies exactly one render.
C22_RequestMatchesRender ==
  /\ [](\A r \in Runs :
          pc[r] = "correct" =>
            /\ request[r].dir = "expand"
                 => (page_count[r] <= 1 /\ fill_ratio[r] < MIN_FILL_RATIO)
            /\ request[r].dir = "shorten"
                 => (page_count[r] > 1 \/ fill_ratio[r] > MAX_FILL_RATIO)
            /\ request[r].pages = page_count[r]
            /\ request[r].fill = fill_ratio[r]
            /\ hist[r].search_renders = hist[r].corrections)
  /\ [](\A r \in Runs :
          /\ hist[r].corrections <= hist[r].search_renders
          /\ hist[r].search_renders <= hist[r].corrections + 1)
  /\ [][\A r \in Runs :
          hist'[r].corrections # hist[r].corrections
            => /\ pc[r] = "evaluate"
               /\ page_count'[r] = page_count[r]
               /\ fill_ratio'[r] = fill_ratio[r]]_vars

\* an expand request after a sparse page that followed a shorten request
C22_Witness ==
  \E r \in Runs : /\ pc[r] = "correct"
                  /\ request[r].dir = "expand"
                  /\ hist[r].corrections = 2
                  /\ hist[r].search_renders = 2
                  /\ page_count[r] = 1
                  /\ fill_ratio[r] = 876

\* the loop has just left through a break: the final render is called and
\* page_count, fill_ratio are still those of the last search render
LoopLeft(r) == pc[r] = "render" /\ render_call[r] = "final"

\* C23: the loop leaves through its success exit (the "Optimized" message)
\* only after a render of at most one page with a fill ratio in
\* [0.88, 0.96]; a render outside the band with no budget left leaves
\* through the exit of the could-not-fit warning.
C23_AcceptOnlyInBand ==
  \A r \in Runs :
    LoopLeft(r) =>
      /\ outcome[r] = "optimized"
           => /\ page_count[r] <= 1
              /\ MIN_FILL_RATIO <= fill_ratio[r]
              /\ fill_ratio[r] <= MAX_FILL_RATIO
      /\ (Violates(page_count[r], fill_ratio[r]) /\ ~HasBudget(attempt[r]))
           => outcome[r] = "warned"

\* C24: the loop does not give up early.  When a render violates a constraint
\* and fewer than 5 corrections were requested, the evaluation issues a
\* correction request; so a loop left after fewer than 5 requests was left
\* on a render of at most one page with a fill ratio in [0.88, 0.96], and so
\* was every run that ended without a failure after fewer than 5 requests.
C24_NeverGivesUpEarly ==
  /\ [][\A r \in Runs :
          (/\ pc[r] = "evaluate" /\ pc'[r] # "evaluate"
           /\ Violates(page_count[r], fill_ratio[r])
           /\ hist[r].corrections < 5)
            => /\ pc'[r] = "correct"
               /\ hist'[r].corrections = hist[r].corrections + 1
               /\ request'[r].dir \in {"shorten", "expand"}]_vars
  /\ [](\A r \in Runs :
          (LoopLeft(r) /\ hist[r].corrections < 5)
            => ~Violates(page_count[r], fill_ratio[r]))
  /\ [](\A r \in Runs :
          (Completed(r) /\ hist[r].corrections < 5) => ~hist[r].all_violating)

\* a run that ended after three requests, its fourth render being in the band
C24_Witness ==
  \E r \in Runs : /\ Completed(r)
                  /\ hist[r].corrections = 3
                  /\ hist[r].search_renders = 4
                  /\ outcome[r] = "optimized"

\* C25: tailored_content changes only when a correction's reply has been
\* extracted, and then it is that extraction's result as a whole; every
\* render is of the current tailored_content; once the loop is left there is
\* no further correction request and no replacement, so the final render,
\* the durable artifact and the tailored_resume of the reply are of the text
\* the last search render was made of.
C25_ReplacedWholesale ==
  /\ [][\A r \in Runs :
          (tailored_content'[r] # tailored_content[r] /\ pc[r] # "query")
            => /\ pc[r] = "correct"
               /\ pc'[r] = "render"
               /\ \E reply \in Replies :
                    LET ex == extract_latex_from_response(reply, request[r].original)
                    IN  ex.ok /\ tailored_content'[r] = ex.text]_vars
  /\ [][\A r \in Runs :
          render_call[r] = "final"
            => /\ tailored_content'[r] = tailored_content[r]
               /\ hist'[r].corrections = hist[r].corrections
               /\ pc'[r] # "correct"]_vars
  /\ [](\A r \in Runs :
          /\ render[r].tmpdir => render[r].tex_file = tailored_content[r]
          /\ Completed(r) =>
               /\ response[r].tailored_resume = tailored_content[r]
               /\ compiled[filename_stem[r]].exists
               /\ compiled[filename_stem[r]].src = tailored_content[r])

\* a run has ended after two corrections replaced the text
C25_Witness ==
  \E r \in Runs : /\ Completed(r)
                  /\ hist[r].corrections = 2
                  /\ compiled[filename_stem[r]].run = r
                  /\ compiled[filename_stem[r]].src = tailored_content[r]
                  /\ response[r].tailored_resume = <<"dc", "x">>

\* v is num / den in thousandths, rounded down and cut to 0..1000 (den > 0)
IsClampedRatio(v, num, den) ==
  /\ v \in 0..1000
  /\ v > 0 => v * den <= 1000 * num
  /\ v < 1000 => 1000 * num < (v + 1) * den

\* a call on a readable page with at least one block has returned
Measured ==
  /\ analysis.pc = "returned"
  /\ analysis.failure = "none"
  /\ analysis.blocks # {}

\* C26 as stated: for a page with at least one block the result is
\* (max_bottom - min_top) / (page_height - bottom_margin - min_top) cut to
\* [0, 1], min_top and max_bottom being taken over the blocks, also when the
\* usable height is negative (nothing is asked when it is zero).
C26_Formula ==
  Measured =>
    LET min_top    == Minimum({b[1] : b \in analysis.blocks})
        max_bottom == Maximum({b[2] : b \in analysis.blocks})
        usable     == analysis.page_height - bottom_margin - min_top
        used       == max_bottom - min_top
    IN  /\ usable > 0 => IsClampedRatio(analysis.value, used, usable)
        /\ usable < 0 => IsClampedRatio(analysis.value, 0 - used, 0 - usable)

\* C26, amended: with content_top the least of the page height and the
\* blocks' tops, and content_bottom the greatest of 0 and the blocks'
\* bottoms, the result is (content_bottom - content_top) /
\* (page_height - bottom_margin - content_top) cut to [0, 1] when that usable
\* height is positive, and 0.9 when it is zero or negative.
C26_FormulaGuarded ==
  Measured =>
    LET content_top    == Minimum({analysis.page_height} \cup {b[1] : b \in analysis.blocks})
        content_bottom == Maximum({0} \cup {b[2] : b \in analysis.blocks})
        usable         == analysis.page_height - bottom_margin - content_top
        used           == content_bottom - content_top
    IN  /\ usable > 0 => IsClampedRatio(analysis.value, used, usable)
        /\ usable <= 0 => analysis.value = FailureDefault

\* a page too short to have a usable height
C26_Witness ==
  /\ Measured
  /\ analysis.page_height = 36
  /\ analysis.blocks = {<<0, 32>>}
  /\ analysis.value = 900

====
